---- MODULE Spec2Model ----
(***************************************************************************)
(* Model of auto_editor/utils/types.py: the coercers that turn a raw      *)
(* command-line token into a typed value.                                  *)
(*                                                                         *)
(* A Python str is a sequence of one-character strings.  A Python float is *)
(* an exact rational with a sign, [neg, n, d] in lowest terms, so that     *)
(* -0.0 and 0.0 are different values that compare equal, as in Python.     *)
(* The float of an integer literal of ten digits or more is [neg, big],    *)
(* big the decimal digits of the double nearest to the literal; an int of  *)
(* that size is kept as its decimal digits too.                            *)
(* An outcome is either Ok(v) or Raise(e) with e the exception class.      *)
(***************************************************************************)
EXTENDS Integers, Sequences, FiniteSets, TLC

\* ------------------------------------------------------------------ bounds
MaxNumLen == 3
MaxTimeLen == 3
MaxColorLen == 3
MaxWordLen == 2
MaxNat == 120

\* ----------------------------------------------------------------- strings
Digits == {"0", "1", "2", "3", "4", "5", "6", "7", "8", "9"}

\* str.isspace() characters that occur in the inputs
Whitespace == {" ", "\n", "\t"}

UpperCase == <<"A", "B", "C", "D", "E", "F", "G", "H", "I", "J", "K", "L", "M",
               "N", "O", "P", "Q", "R", "S", "T", "U", "V", "W", "X", "Y", "Z">>

LowerCase == <<"a", "b", "c", "d", "e", "f", "g", "h", "i", "j", "k", "l", "m",
               "n", "o", "p", "q", "r", "s", "t", "u", "v", "w", "x", "y", "z">>

DigitVal(c) ==
    CASE c = "0" -> 0 [] c = "1" -> 1 [] c = "2" -> 2 [] c = "3" -> 3
      [] c = "4" -> 4 [] c = "5" -> 5 [] c = "6" -> 6 [] c = "7" -> 7
      [] c = "8" -> 8 [] c = "9" -> 9

\* str.lower() on one character
LowerChar(c) ==
    IF \E i \in 1..26 : UpperCase[i] = c
    THEN LowerCase[CHOOSE i \in 1..26 : UpperCase[i] = c]
    ELSE c

\* str.lower()
Lower(s) == [i \in 1..Len(s) |-> LowerChar(s[i])]

RECURSIVE LStrip(_)
LStrip(s) == IF s # <<>> /\ Head(s) \in Whitespace THEN LStrip(Tail(s)) ELSE s

RECURSIVE RStrip(_)
RStrip(s) ==
    IF s # <<>> /\ s[Len(s)] \in Whitespace
    THEN RStrip(SubSeq(s, 1, Len(s) - 1))
    ELSE s

\* str.strip()
Strip(s) == RStrip(LStrip(s))

\* str.split(sep) for a one-character separator: always at least one part
RECURSIVE Split(_, _)
Split(s, sep) ==
    IF \A i \in 1..Len(s) : s[i] # sep
    THEN <<s>>
    ELSE LET k == CHOOSE i \in 1..Len(s) :
                      s[i] = sep /\ \A j \in 1..(i - 1) : s[j] # sep
         IN  <<SubSeq(s, 1, k - 1)>> \o Split(SubSeq(s, k + 1, Len(s)), sep)

\* "sep" in s
Contains(s, sep) == \E i \in 1..Len(s) : s[i] = sep

RECURSIVE Flatten(_)
Flatten(ps) == IF ps = <<>> THEN <<>> ELSE Head(ps) \o Flatten(Tail(ps))

\* ---------------------------------------------------------------- outcomes
Ok(v) == [k |-> "ok", v |-> v]
Raise(e) == [k |-> "raise", exc |-> e]
CoerceError == Raise("CoerceError")
ValueError == Raise("ValueError")
ZeroDivisionError == Raise("ZeroDivisionError")

IsOk(r) == r.k = "ok"

\* ------------------------------------------------------------------ values
VInt(i) == [t |-> "int", i |-> i]
\* an int of ten digits or more, by its decimal digits
VBigInt(ds) == [t |-> "int", big |-> ds]
VFloat(q) == [t |-> "float", q |-> q]
VStr(s) == [t |-> "str", s |-> s]
VBool(b) == [t |-> "bool", b |-> b]
VTuple(xs) == [t |-> "tuple", xs |-> xs]
VList(xs) == [t |-> "list", xs |-> xs]
VFraction(n, d) == [t |-> "Fraction", num |-> n, den |-> d]
\* 10 ** e, kept symbolic
VPow10(e) == [t |-> "pow10", e |-> e]

\* --------------------------------------------------------------- rationals
RECURSIVE GCD(_, _)
GCD(a, b) == IF b = 0 THEN a ELSE GCD(b, a % b)

Abs(i) == IF i < 0 THEN -i ELSE i

RECURSIVE Pow10(_)
Pow10(k) == IF k = 0 THEN 1 ELSE 10 * Pow10(k - 1)

\* the float n/d with sign neg, in lowest terms
Rat(neg, n, d) ==
    LET g == GCD(n, d) IN [neg |-> neg, n |-> n \div g, d |-> d \div g]

\* float(i) for an int i
RatOfInt(i) == [neg |-> i < 0, n |-> Abs(i), d |-> 1]

\* the signed numerator, for comparisons
SNum(q) == IF q.neg THEN -q.n ELSE q.n

\* q < i, q > i, q <= i for a float q and an int i
\* the float is held by its decimal digits
IsBig(q) == "big" \in DOMAIN q

\* q < i, q > i and q <= i for a float q and an int i below ten digits
RatLt(q, i) == IF IsBig(q) THEN q.neg ELSE SNum(q) < i * q.d
RatGt(q, i) == IF IsBig(q) THEN ~q.neg ELSE SNum(q) > i * q.d
RatLe(q, i) == IF IsBig(q) THEN q.neg ELSE SNum(q) <= i * q.d

\* q * i and q / i for a float q and a positive int i
RatMul(q, i) == Rat(q.neg, q.n * i, q.d)
RatDiv(q, i) == Rat(q.neg, q.n, q.d * i)

\* a // b as a float: the floor of the quotient, which C3 tells from a / b
IntFloorDiv(a, b) ==
    LET fl == IF b < 0 THEN (-a) \div (-b) ELSE a \div b
    IN  Rat(fl < 0, Abs(fl), 1)

\* a / b, Python's true division of two ints, b # 0
IntTrueDiv(a, b) ==
    Rat(IF a = 0 THEN b < 0 ELSE (a < 0) # (b < 0), Abs(a), Abs(b))

\* i + q for an int i and a float q; a zero sum is -0.0 only if both are
RatAddInt(i, q) ==
    LET s == i * q.d + SNum(q)
    IN  IF s = 0 THEN Rat(FALSE, 0, 1) ELSE Rat(s < 0, Abs(s), q.d)

\* float.is_integer()
IsInteger(q) == IsBig(q) \/ q.d = 1

\* int(q): truncation toward zero
Trunc(q) == IF q.neg THEN -(q.n \div q.d) ELSE q.n \div q.d

\* rounding with every tie going up, which C10 tells from round(q)
RoundHalfUp(q) ==
    LET f == q.n \div q.d
        r2 == 2 * (q.n % q.d)
    IN  IF q.neg
        THEN (IF r2 > q.d THEN -(f + 1) ELSE -f)
        ELSE (IF r2 >= q.d THEN f + 1 ELSE f)

\* round(q): to the nearest int, a tie to the even one
PyRound(q) ==
    LET f == q.n \div q.d
        r2 == 2 * (q.n % q.d)
        m == IF r2 > q.d \/ (r2 = q.d /\ f % 2 = 1) THEN f + 1 ELSE f
    IN  IF q.neg THEN -m ELSE m

\* Python's == between two numbers (int or float values)
NumEq(a, b) ==
    LET qa == IF a.t = "int" THEN RatOfInt(a.i) ELSE a.q
        qb == IF b.t = "int" THEN RatOfInt(b.i) ELSE b.q
    IN  SNum(qa) * qb.d = SNum(qb) * qa.d

\* ------------------------------------------------- str(), int(), float()
DigitChars == <<"0", "1", "2", "3", "4", "5", "6", "7", "8", "9">>

\* str(n) for an int n >= 0
RECURSIVE NatStr(_)
NatStr(n) ==
    IF n < 10
    THEN <<DigitChars[n + 1]>>
    ELSE NatStr(n \div 10) \o <<DigitChars[(n % 10) + 1]>>

\* the digits of r / d after the decimal point, for 0 <= r < d, d dividing
\* a power of ten
RECURSIVE FracStr(_, _)
FracStr(r, d) ==
    IF r = 0
    THEN <<>>
    ELSE <<DigitChars[((10 * r) \div d) + 1]>> \o FracStr((10 * r) % d, d)

\* str(q) for a float q with 1e-4 <= |q| < 1e16 or q = 0: repr's positional
\* form, which always shows a fractional part
PyStrFloat(q) ==
    LET f == FracStr(q.n % q.d, q.d)
    IN  (IF q.neg THEN <<"-">> ELSE <<>>) \o NatStr(q.n \div q.d) \o <<".">>
            \o (IF f = <<>> THEN <<"0">> ELSE f)

\* a run of digits in which an underscore may stand between two digits
DigitGroup(r) ==
    /\ r # <<>>
    /\ \A i \in 1..Len(r) :
          \/ r[i] \in Digits
          \/ /\ r[i] = "_"
             /\ 1 < i /\ i < Len(r)
             /\ r[i - 1] \in Digits /\ r[i + 1] \in Digits

RECURSIVE DigitsValue(_, _)
DigitsValue(r, acc) ==
    IF r = <<>>
    THEN acc
    ELSE DigitsValue(Tail(r),
                     IF Head(r) = "_" THEN acc ELSE 10 * acc + DigitVal(Head(r)))

NumDigits(r) == Cardinality({i \in 1..Len(r) : r[i] \in Digits})

\* an optional leading sign
SignSplit(s, signs) ==
    IF s # <<>> /\ Head(s) \in signs
    THEN [neg |-> Head(s) = "-", rest |-> Tail(s)]
    ELSE [neg |-> FALSE, rest |-> s]

\* int(s) for a str s: Ok(i), or ValueError
PyInt(s) ==
    LET sg == SignSplit(Strip(s), {"+", "-"})
        v == DigitsValue(sg.rest, 0)
    IN  IF DigitGroup(sg.rest)
        THEN Ok(IF sg.neg THEN -v ELSE v)
        ELSE ValueError

\* a digit string without its leading zeros, "0" for zero
RECURSIVE TrimZeros(_)
TrimZeros(ds) ==
    IF Len(ds) > 1 /\ Head(ds) = "0" THEN TrimZeros(Tail(ds)) ELSE ds

\* the digits of a digit group, without its underscores and leading zeros
GroupDigits(r) ==
    IF r = <<>> THEN <<"0">> ELSE TrimZeros(SelectSeq(r, LAMBDA c : c \in Digits))

\* the digits of ds div 2, as many as ds has, given the carry into them
RECURSIVE HalveFrom(_, _)
HalveFrom(ds, carry) ==
    IF ds = <<>>
    THEN <<>>
    ELSE <<DigitChars[((10 * carry + DigitVal(Head(ds))) \div 2) + 1]>>
             \o HalveFrom(Tail(ds), DigitVal(Head(ds)) % 2)

BigHalf(ds) == TrimZeros(HalveFrom(ds, 0))

BigOdd(ds) == DigitVal(ds[Len(ds)]) % 2 = 1

\* the digits of ds * m + c, for a digit m and a carry c
RECURSIVE TimesPlus(_, _, _)
TimesPlus(ds, m, c) ==
    IF ds = <<>>
    THEN (IF c = 0 THEN <<>> ELSE NatStr(c))
    ELSE TimesPlus(SubSeq(ds, 1, Len(ds) - 1), m,
                   (DigitVal(ds[Len(ds)]) * m + c) \div 10)
             \o <<DigitChars[((DigitVal(ds[Len(ds)]) * m + c) % 10) + 1]>>

\* ds * 2 ** k
RECURSIVE Doubled(_, _)
Doubled(ds, k) == IF k = 0 THEN ds ELSE Doubled(TimesPlus(ds, 2, 0), k - 1)

\* a < b for two digit strings without leading zeros
BigLt(a, b) ==
    \/ Len(a) < Len(b)
    \/ /\ Len(a) = Len(b)
       /\ \E i \in 1..Len(a) :
             /\ DigitVal(a[i]) < DigitVal(b[i])
             /\ \A j \in 1..(i - 1) : a[j] = b[j]

\* 2 ** 53: a double has a significand of 53 bits
Two53 == <<"9", "0", "0", "7", "1", "9", "9", "2", "5", "4", "7", "4", "0",
           "9", "9", "2">>

\* the integer q * 2 ** k + (the bits shifted out) rounded to 53 significant
\* bits, a tie to the even significand: guard is the last bit shifted out
\* of q and sticky tells whether a one was shifted out before it
RECURSIVE RoundTo53(_, _, _, _)
RoundTo53(q, guard, sticky, k) ==
    IF BigLt(q, Two53)
    THEN Doubled(IF guard /\ (sticky \/ BigOdd(q)) THEN TimesPlus(q, 1, 1) ELSE q,
                 k)
    ELSE RoundTo53(BigHalf(q), BigOdd(q), sticky \/ guard, k + 1)

\* the digits of the double nearest to the integer with digits ds
NearestDouble(ds) == RoundTo53(ds, FALSE, FALSE, 0)

\* the float of a valid literal with integer part ip and fractional part fp
FloatOf(neg, ip, fp) ==
    IF Len(GroupDigits(ip)) > 9 /\ GroupDigits(fp) = <<"0">>
    THEN [neg |-> neg, big |-> NearestDouble(GroupDigits(ip))]
    ELSE Rat(neg, DigitsValue(ip \o fp, 0), Pow10(NumDigits(fp)))

\* float(s) for a str s holding no exponent, inf or nan: Ok(q), or ValueError
PyFloat(s) ==
    LET sg == SignSplit(Strip(s), {"+", "-"})
        m == sg.rest
        parts == Split(m, ".")
        ip == parts[1]
        fp == IF Len(parts) = 2 THEN parts[2] ELSE <<>>
    IN  IF /\ Len(parts) <= 2
           /\ ip = <<>> \/ DigitGroup(ip)
           /\ fp = <<>> \/ DigitGroup(fp)
           /\ ip # <<>> \/ fp # <<>>
        THEN Ok(FloatOf(sg.neg, ip, fp))
        ELSE ValueError

\* fractions.Fraction(s) for a str s holding no exponent: Ok(Fraction),
\* ValueError for a malformed literal, ZeroDivisionError for a zero denominator
PyFraction(s) ==
    LET sg == SignSplit(Strip(s), {"+", "-"})
        m == sg.rest
        byslash == Split(m, "/")
        bydot == Split(m, ".")
        sign == IF sg.neg THEN -1 ELSE 1
    IN  IF Len(byslash) = 2
        THEN IF DigitGroup(byslash[1]) /\ DigitGroup(byslash[2])
             THEN LET n == DigitsValue(byslash[1], 0)
                      d == DigitsValue(byslash[2], 0)
                  IN  IF d = 0
                      THEN ZeroDivisionError
                      ELSE Ok(VFraction(sign * (n \div GCD(n, d)), d \div GCD(n, d)))
             ELSE ValueError
        ELSE IF Len(bydot) = 2
        THEN IF /\ bydot[1] = <<>> \/ DigitGroup(bydot[1])
                /\ bydot[2] = <<>> \/ DigitGroup(bydot[2])
                /\ bydot[1] # <<>> \/ bydot[2] # <<>>
             THEN LET q == Rat(sg.neg, DigitsValue(bydot[1] \o bydot[2], 0),
                               Pow10(NumDigits(bydot[2])))
                  IN  Ok(VFraction(sign * q.n, q.d))
             ELSE ValueError
        ELSE IF DigitGroup(m)
        THEN Ok(VFraction(sign * DigitsValue(m, 0), 1))
        ELSE ValueError

\* a number value (int or float) as a float
AsRat(v) ==
    IF v.t = "float" THEN v.q
    ELSE IF "big" \in DOMAIN v THEN [neg |-> FALSE, big |-> v.big]
    ELSE RatOfInt(v.i)

\* int(v) for a number v with an integer value
IntOf(v) ==
    IF v.t = "int" THEN v
    ELSE IF IsBig(v.q)
    THEN VBigInt(IF v.q.neg THEN <<"-">> \o v.q.big ELSE v.q.big)
    ELSE VInt(Trunc(v.q))

\* ---------------------------------------------------------------- coercers
\* the checks of _comma_coerce on vals = val.strip().split(",")
ArgCount(vals, num_args) ==
    IF num_args > Len(vals) THEN CoerceError
    ELSE IF Len(vals) > num_args THEN CoerceError
    ELSE Ok(vals)

\* _comma_coerce(name, val, num_args)
_comma_coerce(val, num_args) == ArgCount(Split(Strip(val.s), ","), num_args)

NUM_CHARS == {"0", "1", "2", "3", "4", "5", "6", "7", "8", "9", "_", " ", ".", "-"}

\* the length of the longest prefix of s made of NUM_CHARS
RECURSIVE NumPrefixLen(_)
NumPrefixLen(s) ==
    IF s = <<>> \/ Head(s) \notin NUM_CHARS THEN 0 ELSE 1 + NumPrefixLen(Tail(s))

\* the outcome of F on the value of r, or the exception that r raised
Bind(r, F(_)) == IF IsOk(r) THEN F(r.v) ELSE r

\* as Bind, for a statement that raises e where r raised anything
BindOr(r, e, F(_)) == IF IsOk(r) THEN F(r.v) ELSE e

\* the tuple (a, b) of two outcomes, or the first exception raised
Pair(a, b) == Bind(a, LAMBDA x : Bind(b, LAMBDA y : Ok(VTuple(<<x, y>>))))

\* _split_num_str without lines 23-24: iterating over a float or an int is a
\* TypeError.  C9 tells it from _split_num_str.
_split_num_str_untyped(val) ==
    IF val.t \in {"float", "int"}
    THEN Raise("TypeError")
    ELSE BindOr(PyFloat(SubSeq(val.s, 1, NumPrefixLen(val.s))), CoerceError,
                LAMBDA f : Ok([num |-> VFloat(f),
                               unit |-> SubSeq(val.s, NumPrefixLen(val.s) + 1,
                                               Len(val.s))]))

\* _split_num_str(val): Ok([num, unit]) or CoerceError.  A float or an int
\* passes through as it is, with an empty unit.
_split_num_str(val) ==
    IF val.t \in {"float", "int"}
    THEN Ok([num |-> val, unit |-> <<>>])
    ELSE BindOr(PyFloat(SubSeq(val.s, 1, NumPrefixLen(val.s))), CoerceError,
                LAMBDA f : Ok([num |-> VFloat(f),
                               unit |-> SubSeq(val.s, NumPrefixLen(val.s) + 1,
                                               Len(val.s))]))

\* _unit_check(unit, allowed_units): TRUE when it raises
_unit_check(unit, allowed_units) == unit \notin allowed_units

natural(val) ==
    Bind(_split_num_str(val), LAMBDA p :
        IF p.unit # <<>> THEN CoerceError
        ELSE IF p.num.t # "int" /\ ~IsInteger(p.num.q) THEN CoerceError
        ELSE IF RatLt(AsRat(p.num), 0) THEN CoerceError
        ELSE Ok(IntOf(p.num)))

bool_coerce(val) ==
    IF val.s \in {<<"#", "t">>, <<"#", "t", "r", "u", "e">>, <<"t", "r", "u", "e">>}
    THEN Ok(VBool(TRUE))
    ELSE IF val.s \in {<<"#", "f">>, <<"#", "f", "a", "l", "s", "e">>,
                       <<"f", "a", "l", "s", "e">>}
    THEN Ok(VBool(FALSE))
    ELSE CoerceError

\* vs[0] / vs[1] for nd = val.split("/") of two parts
Quotient(nd) ==
    BindOr(PyInt(nd[1]), CoerceError, LAMBDA n :
        BindOr(PyInt(nd[2]), CoerceError, LAMBDA d :
            IF d = 0 THEN CoerceError ELSE Ok(VFloat(IntTrueDiv(n, d)))))

number(val) ==
    IF val.t = "str" /\ Contains(val.s, "/")
    THEN IF Len(Split(val.s, "/")) # 2
         THEN CoerceError
         ELSE Quotient(Split(val.s, "/"))
    ELSE Bind(_split_num_str(val), LAMBDA p :
             IF p.unit = <<"%">> THEN Ok(VFloat(RatDiv(AsRat(p.num), 100)))
             ELSE IF _unit_check(p.unit, {<<>>}) THEN CoerceError
             ELSE Ok(p.num))

\* speed with "_s < 0" for "_s <= 0", which C5 tells from speed
speed_zero(val) ==
    Bind(number(val), LAMBDA _s :
        IF RatLt(AsRat(_s), 0) \/ RatGt(AsRat(_s), 99999)
        THEN Ok(VFloat(RatOfInt(99999)))
        ELSE Ok(_s))

speed(val) ==
    Bind(number(val), LAMBDA _s :
        IF RatLe(AsRat(_s), 0) \/ RatGt(AsRat(_s), 99999)
        THEN Ok(VFloat(RatOfInt(99999)))
        ELSE Ok(_s))

db_number(val) ==
    Bind(_split_num_str(val), LAMBDA p :
        IF p.unit = <<"d", "B">> THEN Ok(val) ELSE number(val))

\* threshold with "num >= 1" for "num > 1", which C6 tells from threshold
threshold_open(val) ==
    Bind(number(val), LAMBDA num :
        IF ~RatLt(AsRat(num), 1) \/ RatLt(AsRat(num), 0)
        THEN CoerceError
        ELSE Ok(num))

threshold(val) ==
    Bind(number(val), LAMBDA num :
        IF RatGt(AsRat(num), 1) \/ RatLt(AsRat(num), 0)
        THEN CoerceError
        ELSE Ok(num))

db_threshold(val) ==
    Bind(_split_num_str(val), LAMBDA p :
        IF p.unit = <<"d", "B">>
        THEN IF RatGt(AsRat(p.num), 0)
             THEN CoerceError
             ELSE Ok(VPow10(RatDiv(AsRat(p.num), 20)))
        ELSE threshold(val))

frame_rate(val) ==
    IF val.s = <<"n", "t", "s", "c">> THEN Ok(VFraction(30000, 1001))
    ELSE IF val.s = <<"n", "t", "s", "c", "_", "f", "i", "l", "m">>
    THEN Ok(VFraction(24000, 1001))
    ELSE IF val.s = <<"p", "a", "l">> THEN Ok(VFraction(25, 1))
    ELSE IF val.s = <<"f", "i", "l", "m">> THEN Ok(VFraction(24, 1))
    ELSE PyFraction(val.s)

sample_rate(val) ==
    Bind(_split_num_str(val), LAMBDA p :
        IF p.unit \in {<<"k", "H", "z">>, <<"K", "H", "z">>}
        THEN natural(VFloat(RatMul(AsRat(p.num), 1000)))
        ELSE IF _unit_check(p.unit, {<<>>, <<"H", "z">>}) THEN CoerceError
        ELSE natural(p.num))

SecondUnits == {<<"s">>, <<"s", "e", "c">>, <<"s", "e", "c", "s">>,
                <<"s", "e", "c", "o", "n", "d">>,
                <<"s", "e", "c", "o", "n", "d", "s">>}

MinuteUnits == {<<"m">>, <<"m", "i", "n">>, <<"m", "i", "n", "s">>,
                <<"m", "i", "n", "u", "t", "e">>,
                <<"m", "i", "n", "u", "t", "e", "s">>}

HourUnits == {<<"h">>, <<"h", "o", "u", "r">>, <<"h", "o", "u", "r", "s">>}

\* str(int(boxes[0]) + float(boxes[1])): the minutes not scaled, which C7
\* tells from MinSec
MinSec_unscaled(boxes) ==
    Bind(PyInt(boxes[1]), LAMBDA m :
        Bind(PyFloat(boxes[2]), LAMBDA sec :
            Ok(VStr(PyStrFloat(RatAddInt(m, sec))))))

\* str(int(boxes[0]) * 60 + float(boxes[1]))
MinSec(boxes) ==
    Bind(PyInt(boxes[1]), LAMBDA m :
        Bind(PyFloat(boxes[2]), LAMBDA sec :
            Ok(VStr(PyStrFloat(RatAddInt(m * 60, sec))))))

\* str(int(boxes[0]) * 3600 + int(boxes[1]) * 60 + float(boxes[2]))
HourMinSec(boxes) ==
    Bind(PyInt(boxes[1]), LAMBDA h :
        Bind(PyInt(boxes[2]), LAMBDA m :
            Bind(PyFloat(boxes[3]), LAMBDA sec :
                Ok(VStr(PyStrFloat(RatAddInt(h * 3600 + m * 60, sec)))))))

time(val) ==
    IF Contains(val.s, ":")
    THEN IF Len(Split(val.s, ":")) = 2 THEN MinSec(Split(val.s, ":"))
         ELSE IF Len(Split(val.s, ":")) = 3 THEN HourMinSec(Split(val.s, ":"))
         ELSE CoerceError
    ELSE Bind(_split_num_str(val), LAMBDA p :
             IF p.unit \in SecondUnits
             THEN Ok(VStr(PyStrFloat(p.num.q)))
             ELSE IF p.unit \in MinuteUnits
             THEN Ok(VStr(PyStrFloat(RatMul(p.num.q, 60))))
             ELSE IF p.unit \in HourUnits
             THEN Ok(VStr(PyStrFloat(RatMul(p.num.q, 3600))))
             ELSE IF _unit_check(p.unit, {<<>>}) THEN CoerceError
             ELSE IF ~IsInteger(p.num.q) THEN CoerceError
             ELSE Ok(VInt(Trunc(p.num.q))))

anchor(val) ==
    IF val.s \notin {<<"t", "l">>, <<"t", "r">>, <<"b", "l">>, <<"b", "r">>,
                     <<"c", "e">>}
    THEN CoerceError
    ELSE Ok(val)

\* vals with nothing appended, which C8 tells from Duplicated
Duplicated_none(vals) == vals

\* vals after "if len(vals) == 1: vals.append(vals[0])"
Duplicated(vals) == IF Len(vals) = 1 THEN vals \o <<vals[1]>> ELSE vals

\* (time(vals[0]), time(vals[1])), unless len(vals) != 2
MarginOf(vals) ==
    IF Len(vals) # 2
    THEN CoerceError
    ELSE Pair(time(VStr(vals[1])), time(VStr(vals[2])))

margin(val) == MarginOf(Duplicated(Split(Strip(val.s), ",")))

time_range(val) ==
    Bind(_comma_coerce(val, 2), LAMBDA a : Ok(VList(<<VStr(a[1]), VStr(a[2])>>)))

speed_range(val) ==
    Bind(_comma_coerce(val, 3), LAMBDA a :
        Bind(number(VStr(a[1])), LAMBDA n :
            Ok(VTuple(<<n, VStr(a[2]), VStr(a[3])>>))))

align(val) ==
    IF val.s = <<"l", "e", "f", "t">> THEN Ok(val)
    ELSE IF val.s = <<"c", "e", "n", "t", "e", "r">> THEN Ok(val)
    ELSE IF val.s = <<"r", "i", "g", "h", "t">> THEN Ok(val)
    ELSE CoerceError

stream(val) ==
    IF val.s = <<"a", "l", "l">> THEN Ok(val) ELSE natural(val)

\* (natural(vals[0]), natural(vals[1])), unless len(vals) != 2
ResolutionOf(vals) ==
    IF Len(vals) # 2
    THEN CoerceError
    ELSE Pair(natural(VStr(vals[1])), natural(VStr(vals[2])))

resolution(val) == ResolutionOf(Split(Strip(val.s), ","))

\* round(x) for a number x: an int is its own rounding
RoundNum(v) == IF v.t = "int" THEN v.i ELSE PyRound(v.q)

\* pos((v, dim))
pos(val) ==
    Bind(_split_num_str(val[1]), LAMBDA p :
        IF p.unit = <<"%">>
        THEN Ok(VInt(PyRound(RatMul(RatDiv(AsRat(p.num), 100), val[2]))))
        ELSE IF _unit_check(p.unit, {<<>>}) THEN CoerceError
        ELSE Ok(VInt(RoundNum(p.num))))

\* the name-to-hex table, as <<name, hex>> pairs
colormap ==
    {
      <<<<"a", "l", "i", "c", "e", "b", "l", "u", "e">>,
        <<"#", "f", "0", "f", "8", "f", "f">>>>,
      <<<<"a", "n", "t", "i", "q", "u", "e", "w", "h", "i", "t", "e">>,
        <<"#", "f", "a", "e", "b", "d", "7">>>>,
      <<<<"a", "q", "u", "a">>,
        <<"#", "0", "0", "f", "f", "f", "f">>>>,
      <<<<"a", "q", "u", "a", "m", "a", "r", "i", "n", "e">>,
        <<"#", "7", "f", "f", "f", "d", "4">>>>,
      <<<<"a", "z", "u", "r", "e">>,
        <<"#", "f", "0", "f", "f", "f", "f">>>>,
      <<<<"b", "e", "i", "g", "e">>,
        <<"#", "f", "5", "f", "5", "d", "c">>>>,
      <<<<"b", "i", "s", "q", "u", "e">>,
        <<"#", "f", "f", "e", "4", "c", "4">>>>,
      <<<<"b", "l", "a", "c", "k">>,
        <<"#", "0", "0", "0", "0", "0", "0">>>>,
      <<<<"b", "l", "a", "n", "c", "h", "e", "d", "a", "l", "m", "o", "n", "d">>,
        <<"#", "f", "f", "e", "b", "c", "d">>>>,
      <<<<"b", "l", "u", "e">>,
        <<"#", "0", "0", "0", "0", "f", "f">>>>,
      <<<<"b", "l", "u", "e", "v", "i", "o", "l", "e", "t">>,
        <<"#", "8", "a", "2", "b", "e", "2">>>>,
      <<<<"b", "r", "o", "w", "n">>,
        <<"#", "a", "5", "2", "a", "2", "a">>>>,
      <<<<"b", "u", "r", "l", "y", "w", "o", "o", "d">>,
        <<"#", "d", "e", "b", "8", "8", "7">>>>,
      <<<<"c", "a", "d", "e", "t", "b", "l", "u", "e">>,
        <<"#", "5", "f", "9", "e", "a", "0">>>>,
      <<<<"c", "h", "a", "r", "t", "r", "e", "u", "s", "e">>,
        <<"#", "7", "f", "f", "f", "0", "0">>>>,
      <<<<"c", "h", "o", "c", "o", "l", "a", "t", "e">>,
        <<"#", "d", "2", "6", "9", "1", "e">>>>,
      <<<<"c", "o", "r", "a", "l">>,
        <<"#", "f", "f", "7", "f", "5", "0">>>>,
      <<<<"c", "o", "r", "n", "f", "l", "o", "w", "e", "r", "b", "l", "u", "e">>,
        <<"#", "6", "4", "9", "5", "e", "d">>>>,
      <<<<"c", "o", "r", "n", "s", "i", "l", "k">>,
        <<"#", "f", "f", "f", "8", "d", "c">>>>,
      <<<<"c", "r", "i", "m", "s", "o", "n">>,
        <<"#", "d", "c", "1", "4", "3", "c">>>>,
      <<<<"c", "y", "a", "n">>,
        <<"#", "0", "0", "f", "f", "f", "f">>>>,
      <<<<"d", "a", "r", "k", "b", "l", "u", "e">>,
        <<"#", "0", "0", "0", "0", "8", "b">>>>,
      <<<<"d", "a", "r", "k", "c", "y", "a", "n">>,
        <<"#", "0", "0", "8", "b", "8", "b">>>>,
      <<<<"d", "a", "r", "k", "g", "o", "l", "d", "e", "n", "r", "o", "d">>,
        <<"#", "b", "8", "8", "6", "0", "b">>>>,
      <<<<"d", "a", "r", "k", "g", "r", "a", "y">>,
        <<"#", "a", "9", "a", "9", "a", "9">>>>,
      <<<<"d", "a", "r", "k", "g", "r", "e", "y">>,
        <<"#", "a", "9", "a", "9", "a", "9">>>>,
      <<<<"d", "a", "r", "k", "g", "r", "e", "e", "n">>,
        <<"#", "0", "0", "6", "4", "0", "0">>>>,
      <<<<"d", "a", "r", "k", "k", "h", "a", "k", "i">>,
        <<"#", "b", "d", "b", "7", "6", "b">>>>,
      <<<<"d", "a", "r", "k", "m", "a", "g", "e", "n", "t", "a">>,
        <<"#", "8", "b", "0", "0", "8", "b">>>>,
      <<<<"d", "a", "r", "k", "o", "l", "i", "v", "e", "g", "r", "e", "e", "n">>,
        <<"#", "5", "5", "6", "b", "2", "f">>>>,
      <<<<"d", "a", "r", "k", "o", "r", "a", "n", "g", "e">>,
        <<"#", "f", "f", "8", "c", "0", "0">>>>,
      <<<<"d", "a", "r", "k", "o", "r", "c", "h", "i", "d">>,
        <<"#", "9", "9", "3", "2", "c", "c">>>>,
      <<<<"d", "a", "r", "k", "r", "e", "d">>,
        <<"#", "8", "b", "0", "0", "0", "0">>>>,
      <<<<"d", "a", "r", "k", "s", "a", "l", "m", "o", "n">>,
        <<"#", "e", "9", "9", "6", "7", "a">>>>,
      <<<<"d", "a", "r", "k", "s", "e", "a", "g", "r", "e", "e", "n">>,
        <<"#", "8", "f", "b", "c", "8", "f">>>>,
      <<<<"d", "a", "r", "k", "s", "l", "a", "t", "e", "b", "l", "u", "e">>,
        <<"#", "4", "8", "3", "d", "8", "b">>>>,
      <<<<"d", "a", "r", "k", "s", "l", "a", "t", "e", "g", "r", "a", "y">>,
        <<"#", "2", "f", "4", "f", "4", "f">>>>,
      <<<<"d", "a", "r", "k", "s", "l", "a", "t", "e", "g", "r", "e", "y">>,
        <<"#", "2", "f", "4", "f", "4", "f">>>>,
      <<<<"d", "a", "r", "k", "t", "u", "r", "q", "u", "o", "i", "s", "e">>,
        <<"#", "0", "0", "c", "e", "d", "1">>>>,
      <<<<"d", "a", "r", "k", "v", "i", "o", "l", "e", "t">>,
        <<"#", "9", "4", "0", "0", "d", "3">>>>,
      <<<<"d", "e", "e", "p", "p", "i", "n", "k">>,
        <<"#", "f", "f", "1", "4", "9", "3">>>>,
      <<<<"d", "e", "e", "p", "s", "k", "y", "b", "l", "u", "e">>,
        <<"#", "0", "0", "b", "f", "f", "f">>>>,
      <<<<"d", "i", "m", "g", "r", "a", "y">>,
        <<"#", "6", "9", "6", "9", "6", "9">>>>,
      <<<<"d", "i", "m", "g", "r", "e", "y">>,
        <<"#", "6", "9", "6", "9", "6", "9">>>>,
      <<<<"d", "o", "d", "g", "e", "r", "b", "l", "u", "e">>,
        <<"#", "1", "e", "9", "0", "f", "f">>>>,
      <<<<"f", "i", "r", "e", "b", "r", "i", "c", "k">>,
        <<"#", "b", "2", "2", "2", "2", "2">>>>,
      <<<<"f", "l", "o", "r", "a", "l", "w", "h", "i", "t", "e">>,
        <<"#", "f", "f", "f", "a", "f", "0">>>>,
      <<<<"f", "o", "r", "e", "s", "t", "g", "r", "e", "e", "n">>,
        <<"#", "2", "2", "8", "b", "2", "2">>>>,
      <<<<"f", "u", "c", "h", "s", "i", "a">>,
        <<"#", "f", "f", "0", "0", "f", "f">>>>,
      <<<<"g", "a", "i", "n", "s", "b", "o", "r", "o">>,
        <<"#", "d", "c", "d", "c", "d", "c">>>>,
      <<<<"g", "h", "o", "s", "t", "w", "h", "i", "t", "e">>,
        <<"#", "f", "8", "f", "8", "f", "f">>>>,
      <<<<"g", "o", "l", "d">>,
        <<"#", "f", "f", "d", "7", "0", "0">>>>,
      <<<<"g", "o", "l", "d", "e", "n", "r", "o", "d">>,
        <<"#", "d", "a", "a", "5", "2", "0">>>>,
      <<<<"g", "r", "a", "y">>,
        <<"#", "8", "0", "8", "0", "8", "0">>>>,
      <<<<"g", "r", "e", "y">>,
        <<"#", "8", "0", "8", "0", "8", "0">>>>,
      <<<<"g", "r", "e", "e", "n">>,
        <<"#", "0", "0", "8", "0", "0", "0">>>>,
      <<<<"g", "r", "e", "e", "n", "y", "e", "l", "l", "o", "w">>,
        <<"#", "a", "d", "f", "f", "2", "f">>>>,
      <<<<"h", "o", "n", "e", "y", "d", "e", "w">>,
        <<"#", "f", "0", "f", "f", "f", "0">>>>,
      <<<<"h", "o", "t", "p", "i", "n", "k">>,
        <<"#", "f", "f", "6", "9", "b", "4">>>>,
      <<<<"i", "n", "d", "i", "a", "n", "r", "e", "d">>,
        <<"#", "c", "d", "5", "c", "5", "c">>>>,
      <<<<"i", "n", "d", "i", "g", "o">>,
        <<"#", "4", "b", "0", "0", "8", "2">>>>,
      <<<<"i", "v", "o", "r", "y">>,
        <<"#", "f", "f", "f", "f", "f", "0">>>>,
      <<<<"k", "h", "a", "k", "i">>,
        <<"#", "f", "0", "e", "6", "8", "c">>>>,
      <<<<"l", "a", "v", "e", "n", "d", "e", "r">>,
        <<"#", "e", "6", "e", "6", "f", "a">>>>,
      <<<<"l", "a", "v", "e", "n", "d", "e", "r", "b", "l", "u", "s", "h">>,
        <<"#", "f", "f", "f", "0", "f", "5">>>>,
      <<<<"l", "a", "w", "n", "g", "r", "e", "e", "n">>,
        <<"#", "7", "c", "f", "c", "0", "0">>>>,
      <<<<"l", "e", "m", "o", "n", "c", "h", "i", "f", "f", "o", "n">>,
        <<"#", "f", "f", "f", "a", "c", "d">>>>,
      <<<<"l", "i", "g", "h", "t", "b", "l", "u", "e">>,
        <<"#", "a", "d", "d", "8", "e", "6">>>>,
      <<<<"l", "i", "g", "h", "t", "c", "o", "r", "a", "l">>,
        <<"#", "f", "0", "8", "0", "8", "0">>>>,
      <<<<"l", "i", "g", "h", "t", "c", "y", "a", "n">>,
        <<"#", "e", "0", "f", "f", "f", "f">>>>,
      <<<<"l", "i", "g", "h", "t", "g", "o", "l", "d", "e", "n", "r", "o", "d", "y", "e", "l", "l", "o", "w">>,
        <<"#", "f", "a", "f", "a", "d", "2">>>>,
      <<<<"l", "i", "g", "h", "t", "g", "r", "e", "e", "n">>,
        <<"#", "9", "0", "e", "e", "9", "0">>>>,
      <<<<"l", "i", "g", "h", "t", "g", "r", "a", "y">>,
        <<"#", "d", "3", "d", "3", "d", "3">>>>,
      <<<<"l", "i", "g", "h", "t", "g", "r", "e", "y">>,
        <<"#", "d", "3", "d", "3", "d", "3">>>>,
      <<<<"l", "i", "g", "h", "t", "p", "i", "n", "k">>,
        <<"#", "f", "f", "b", "6", "c", "1">>>>,
      <<<<"l", "i", "g", "h", "t", "s", "a", "l", "m", "o", "n">>,
        <<"#", "f", "f", "a", "0", "7", "a">>>>,
      <<<<"l", "i", "g", "h", "t", "s", "e", "a", "g", "r", "e", "e", "n">>,
        <<"#", "2", "0", "b", "2", "a", "a">>>>,
      <<<<"l", "i", "g", "h", "t", "s", "k", "y", "b", "l", "u", "e">>,
        <<"#", "8", "7", "c", "e", "f", "a">>>>,
      <<<<"l", "i", "g", "h", "t", "s", "l", "a", "t", "e", "g", "r", "a", "y">>,
        <<"#", "7", "7", "8", "8", "9", "9">>>>,
      <<<<"l", "i", "g", "h", "t", "s", "l", "a", "t", "e", "g", "r", "e", "y">>,
        <<"#", "7", "7", "8", "8", "9", "9">>>>,
      <<<<"l", "i", "g", "h", "t", "s", "t", "e", "e", "l", "b", "l", "u", "e">>,
        <<"#", "b", "0", "c", "4", "d", "e">>>>,
      <<<<"l", "i", "g", "h", "t", "y", "e", "l", "l", "o", "w">>,
        <<"#", "f", "f", "f", "f", "e", "0">>>>,
      <<<<"l", "i", "m", "e">>,
        <<"#", "0", "0", "f", "f", "0", "0">>>>,
      <<<<"l", "i", "m", "e", "g", "r", "e", "e", "n">>,
        <<"#", "3", "2", "c", "d", "3", "2">>>>,
      <<<<"l", "i", "n", "e", "n">>,
        <<"#", "f", "a", "f", "0", "e", "6">>>>,
      <<<<"m", "a", "g", "e", "n", "t", "a">>,
        <<"#", "f", "f", "0", "0", "f", "f">>>>,
      <<<<"m", "a", "r", "o", "o", "n">>,
        <<"#", "8", "0", "0", "0", "0", "0">>>>,
      <<<<"m", "e", "d", "i", "u", "m", "a", "q", "u", "a", "m", "a", "r", "i", "n", "e">>,
        <<"#", "6", "6", "c", "d", "a", "a">>>>,
      <<<<"m", "e", "d", "i", "u", "m", "b", "l", "u", "e">>,
        <<"#", "0", "0", "0", "0", "c", "d">>>>,
      <<<<"m", "e", "d", "i", "u", "m", "o", "r", "c", "h", "i", "d">>,
        <<"#", "b", "a", "5", "5", "d", "3">>>>,
      <<<<"m", "e", "d", "i", "u", "m", "p", "u", "r", "p", "l", "e">>,
        <<"#", "9", "3", "7", "0", "d", "b">>>>,
      <<<<"m", "e", "d", "i", "u", "m", "s", "e", "a", "g", "r", "e", "e", "n">>,
        <<"#", "3", "c", "b", "3", "7", "1">>>>,
      <<<<"m", "e", "d", "i", "u", "m", "s", "l", "a", "t", "e", "b", "l", "u", "e">>,
        <<"#", "7", "b", "6", "8", "e", "e">>>>,
      <<<<"m", "e", "d", "i", "u", "m", "s", "p", "r", "i", "n", "g", "g", "r", "e", "e", "n">>,
        <<"#", "0", "0", "f", "a", "9", "a">>>>,
      <<<<"m", "e", "d", "i", "u", "m", "t", "u", "r", "q", "u", "o", "i", "s", "e">>,
        <<"#", "4", "8", "d", "1", "c", "c">>>>,
      <<<<"m", "e", "d", "i", "u", "m", "v", "i", "o", "l", "e", "t", "r", "e", "d">>,
        <<"#", "c", "7", "1", "5", "8", "5">>>>,
      <<<<"m", "i", "d", "n", "i", "g", "h", "t", "b", "l", "u", "e">>,
        <<"#", "1", "9", "1", "9", "7", "0">>>>,
      <<<<"m", "i", "n", "t", "c", "r", "e", "a", "m">>,
        <<"#", "f", "5", "f", "f", "f", "a">>>>,
      <<<<"m", "i", "s", "t", "y", "r", "o", "s", "e">>,
        <<"#", "f", "f", "e", "4", "e", "1">>>>,
      <<<<"m", "o", "c", "c", "a", "s", "i", "n">>,
        <<"#", "f", "f", "e", "4", "b", "5">>>>,
      <<<<"n", "a", "v", "a", "j", "o", "w", "h", "i", "t", "e">>,
        <<"#", "f", "f", "d", "e", "a", "d">>>>,
      <<<<"n", "a", "v", "y">>,
        <<"#", "0", "0", "0", "0", "8", "0">>>>,
      <<<<"o", "l", "d", "l", "a", "c", "e">>,
        <<"#", "f", "d", "f", "5", "e", "6">>>>,
      <<<<"o", "l", "i", "v", "e">>,
        <<"#", "8", "0", "8", "0", "0", "0">>>>,
      <<<<"o", "l", "i", "v", "e", "d", "r", "a", "b">>,
        <<"#", "6", "b", "8", "e", "2", "3">>>>,
      <<<<"o", "r", "a", "n", "g", "e">>,
        <<"#", "f", "f", "a", "5", "0", "0">>>>,
      <<<<"o", "r", "a", "n", "g", "e", "r", "e", "d">>,
        <<"#", "f", "f", "4", "5", "0", "0">>>>,
      <<<<"o", "r", "c", "h", "i", "d">>,
        <<"#", "d", "a", "7", "0", "d", "6">>>>,
      <<<<"p", "a", "l", "e", "g", "o", "l", "d", "e", "n", "r", "o", "d">>,
        <<"#", "e", "e", "e", "8", "a", "a">>>>,
      <<<<"p", "a", "l", "e", "g", "r", "e", "e", "n">>,
        <<"#", "9", "8", "f", "b", "9", "8">>>>,
      <<<<"p", "a", "l", "e", "t", "u", "r", "q", "u", "o", "i", "s", "e">>,
        <<"#", "a", "f", "e", "e", "e", "e">>>>,
      <<<<"p", "a", "l", "e", "v", "i", "o", "l", "e", "t", "r", "e", "d">>,
        <<"#", "d", "b", "7", "0", "9", "3">>>>,
      <<<<"p", "a", "p", "a", "y", "a", "w", "h", "i", "p">>,
        <<"#", "f", "f", "e", "f", "d", "5">>>>,
      <<<<"p", "e", "a", "c", "h", "p", "u", "f", "f">>,
        <<"#", "f", "f", "d", "a", "b", "9">>>>,
      <<<<"p", "e", "r", "u">>,
        <<"#", "c", "d", "8", "5", "3", "f">>>>,
      <<<<"p", "i", "n", "k">>,
        <<"#", "f", "f", "c", "0", "c", "b">>>>,
      <<<<"p", "l", "u", "m">>,
        <<"#", "d", "d", "a", "0", "d", "d">>>>,
      <<<<"p", "o", "w", "d", "e", "r", "b", "l", "u", "e">>,
        <<"#", "b", "0", "e", "0", "e", "6">>>>,
      <<<<"p", "u", "r", "p", "l", "e">>,
        <<"#", "8", "0", "0", "0", "8", "0">>>>,
      <<<<"r", "e", "b", "e", "c", "c", "a", "p", "u", "r", "p", "l", "e">>,
        <<"#", "6", "6", "3", "3", "9", "9">>>>,
      <<<<"r", "e", "d">>,
        <<"#", "f", "f", "0", "0", "0", "0">>>>,
      <<<<"r", "o", "s", "y", "b", "r", "o", "w", "n">>,
        <<"#", "b", "c", "8", "f", "8", "f">>>>,
      <<<<"r", "o", "y", "a", "l", "b", "l", "u", "e">>,
        <<"#", "4", "1", "6", "9", "e", "1">>>>,
      <<<<"s", "a", "d", "d", "l", "e", "b", "r", "o", "w", "n">>,
        <<"#", "8", "b", "4", "5", "1", "3">>>>,
      <<<<"s", "a", "l", "m", "o", "n">>,
        <<"#", "f", "a", "8", "0", "7", "2">>>>,
      <<<<"s", "a", "n", "d", "y", "b", "r", "o", "w", "n">>,
        <<"#", "f", "4", "a", "4", "6", "0">>>>,
      <<<<"s", "e", "a", "g", "r", "e", "e", "n">>,
        <<"#", "2", "e", "8", "b", "5", "7">>>>,
      <<<<"s", "e", "a", "s", "h", "e", "l", "l">>,
        <<"#", "f", "f", "f", "5", "e", "e">>>>,
      <<<<"s", "i", "e", "n", "n", "a">>,
        <<"#", "a", "0", "5", "2", "2", "d">>>>,
      <<<<"s", "i", "l", "v", "e", "r">>,
        <<"#", "c", "0", "c", "0", "c", "0">>>>,
      <<<<"s", "k", "y", "b", "l", "u", "e">>,
        <<"#", "8", "7", "c", "e", "e", "b">>>>,
      <<<<"s", "l", "a", "t", "e", "b", "l", "u", "e">>,
        <<"#", "6", "a", "5", "a", "c", "d">>>>,
      <<<<"s", "l", "a", "t", "e", "g", "r", "a", "y">>,
        <<"#", "7", "0", "8", "0", "9", "0">>>>,
      <<<<"s", "l", "a", "t", "e", "g", "r", "e", "y">>,
        <<"#", "7", "0", "8", "0", "9", "0">>>>,
      <<<<"s", "n", "o", "w">>,
        <<"#", "f", "f", "f", "a", "f", "a">>>>,
      <<<<"s", "p", "r", "i", "n", "g", "g", "r", "e", "e", "n">>,
        <<"#", "0", "0", "f", "f", "7", "f">>>>,
      <<<<"s", "t", "e", "e", "l", "b", "l", "u", "e">>,
        <<"#", "4", "6", "8", "2", "b", "4">>>>,
      <<<<"t", "a", "n">>,
        <<"#", "d", "2", "b", "4", "8", "c">>>>,
      <<<<"t", "e", "a", "l">>,
        <<"#", "0", "0", "8", "0", "8", "0">>>>,
      <<<<"t", "h", "i", "s", "t", "l", "e">>,
        <<"#", "d", "8", "b", "f", "d", "8">>>>,
      <<<<"t", "o", "m", "a", "t", "o">>,
        <<"#", "f", "f", "6", "3", "4", "7">>>>,
      <<<<"t", "u", "r", "q", "u", "o", "i", "s", "e">>,
        <<"#", "4", "0", "e", "0", "d", "0">>>>,
      <<<<"v", "i", "o", "l", "e", "t">>,
        <<"#", "e", "e", "8", "2", "e", "e">>>>,
      <<<<"w", "h", "e", "a", "t">>,
        <<"#", "f", "5", "d", "e", "b", "3">>>>,
      <<<<"w", "h", "i", "t", "e">>,
        <<"#", "f", "f", "f", "f", "f", "f">>>>,
      <<<<"w", "h", "i", "t", "e", "s", "m", "o", "k", "e">>,
        <<"#", "f", "5", "f", "5", "f", "5">>>>,
      <<<<"y", "e", "l", "l", "o", "w">>,
        <<"#", "f", "f", "f", "f", "0", "0">>>>,
      <<<<"y", "e", "l", "l", "o", "w", "g", "r", "e", "e", "n">>,
        <<"#", "9", "a", "c", "d", "3", "2">>>>
    }

HexLower == {"a", "b", "c", "d", "e", "f"} \cup Digits

\* re.match("#[a-f0-9]{n}$", s): the pattern from the start of s; "$" matches
\* at the end of s and also just before a newline that ends s
ReMatchHex(s, n) ==
    /\ Len(s) >= n + 1
    /\ s[1] = "#"
    /\ \A i \in 2..(n + 1) : s[i] \in HexLower
    /\ \/ Len(s) = n + 1
       \/ Len(s) = n + 2 /\ s[n + 2] = "\n"

color(val) ==
    LET lowered == Lower(val.s)
        c == IF \E e \in colormap : e[1] = lowered
             THEN (CHOOSE e \in colormap : e[1] = lowered)[2]
             ELSE lowered
    IN  IF ReMatchHex(c, 3)
        THEN Ok(VStr(<<"#">> \o Flatten([i \in 1..(Len(c) - 1) |->
                                            <<c[i + 1], c[i + 1]>>])))
        ELSE IF ReMatchHex(c, 6)
        THEN Ok(VStr(c))
        ELSE ValueError
\* ------------------------------------------------------------------ inputs
\* all strings of up to k pieces taken from P
SeqsUpTo(P, k) == UNION {[1..m -> P] : m \in 0..k}

Pieces(P, k) == {Flatten(ps) : ps \in SeqsUpTo(P, k)}

NumChars == {"0", "1", "2", "5", ".", "-", "_", " ", "/", "%", "+", "x"}

NumExtra ==
    {
    <<"9", "9", "9", "9", "9">>, <<"1", "0", "0", "0", "0", "0">>,
    <<"9", "9", "9", "9", "9", ".", "5">>, <<"9", "9", "9", "9">>,
    <<"1", "0", "0", "%">>, <<"1", "0", "1", "%">>, <<"1", "5", "0", "%">>,
    <<"-", "1", ".", "5">>, <<"-", "2", ".", "5">>, <<"1", "/", "-", "2">>,
    <<"-", "1", "/", "2">>, <<"1", ".", "5", "/", "2">>,
    <<"1", "/", "2", "/", "3">>, <<"1", "0", "/", "4">>,
    <<"1", "_", "0", "/", "2">>, <<" ", "1", "/", " ", "2", " ">>,
    <<"-", "1", "2", "d", "B">>, <<"-", "2", "0", "d", "B">>,
    <<"5", "d", "B">>, <<"0", "d", "B">>,
    <<"4", "4", ".", "1", "k", "H", "z">>, <<"4", "8", "K", "H", "z">>,
    <<"5", "0", "H", "z">>, <<"1", ".", "5", "k", "H", "z">>,
    <<"2", ".", "5", "%">>, <<"1", "2", ".", "5", "%">>, <<"5", "p", "x">>,
    <<"-", "0", ".", "0">>, <<"0", ".", "2", "5">>,
    <<"1", ".", "2", "5", "%">>
    }

\* str(n) for the naturals up to MaxNat
DecTokens == {NatStr(n) : n \in 0..MaxNat}

NumTokens ==
    UNION {[1..m -> NumChars] : m \in 0..MaxNumLen} \cup NumExtra \cup DecTokens

\* integer literals of ten digits and more, most of them around 2 ** 53
BigExtra ==
    {
    <<"1", "0", "0", "0", "0", "0", "0", "0", "0", "0", "0">>,
    <<"9", "0", "0", "7", "1", "9", "9", "2", "5", "4", "7", "4", "0", "9", "9", "1">>,
    <<"9", "0", "0", "7", "1", "9", "9", "2", "5", "4", "7", "4", "0", "9", "9", "2">>,
    <<"9", "0", "0", "7", "1", "9", "9", "2", "5", "4", "7", "4", "0", "9", "9", "3">>,
    <<"9", "0", "0", "7", "1", "9", "9", "2", "5", "4", "7", "4", "0", "9", "9", "4">>,
    <<"9", "0", "0", "7", "1", "9", "9", "2", "5", "4", "7", "4", "0", "9", "9", "5">>,
    <<"-", "9", "0", "0", "7", "1", "9", "9", "2", "5", "4", "7", "4", "0", "9",
      "9", "3">>,
    <<"9", "0", "0", "7", "1", "9", "9", "2", "5", "4", "7", "4", "0", "9", "9", "3",
      ".", "0">>,
    <<"9", "0", "0", "7", "1", "9", "9", "2", "5", "4", "7", "4", "0", "9", "9", "3",
      "H", "z">>,
    <<"1", "2", "3", "4", "5", "6", "7", "8", "9", "0", "1", "2", "3", "4", "5", "6",
      "7", "8", "9", "0">>,
    <<"9", "9", "9", "9", "9", "9", "9", "9", "9", "9", "9", "9", "9", "9", "9", "9",
      "9", "9">>
    }

NaturalTokens == NumTokens \cup BigExtra

TimeChars == {"0", "1", "5", ".", "-", " ", ":", ",", "s", "m", "h", "\n", "x"}

TimeExtra ==
    {
    <<"1", ":", "3", "0">>, <<"1", ":", "0", "1", ":", "0", "1">>,
    <<"1", ".", "5", "m">>, <<"5", "s", "e", "c">>,
    <<"5", "s", "e", "c", "s">>, <<"5", "s", "e", "c", "o", "n", "d">>,
    <<"5", "s", "e", "c", "o", "n", "d", "s">>, <<"5", "m", "i", "n">>,
    <<"5", "m", "i", "n", "s">>, <<"5", "m", "i", "n", "u", "t", "e">>,
    <<"5", "m", "i", "n", "u", "t", "e", "s">>, <<"5", "h", "o", "u", "r">>,
    <<"5", "h", "o", "u", "r", "s">>, <<"1", ".", "5", "h">>,
    <<"1", ":", "2", ":", "3", ":", "4">>, <<"1", ":", "1", ":", "1">>,
    <<"-", "1", ":", "3", "0">>, <<"1", ":", "-", "3", "0">>,
    <<"1", ":", ".", "5">>, <<"1", ".", "5", ":", "3", "0">>,
    <<"1", ":", "1", ".", "5", ":", "1">>, <<"0", ".", "5", "s">>,
    <<"1", "0", ":", "5", ".", "5">>, <<"1", ",", "5", ",", "0">>,
    <<"5", "s", " ", ",", "5", "s">>, <<"1", ".", "5", ".", "1">>
    }

TimeTokens == UNION {[1..m -> TimeChars] : m \in 0..MaxTimeLen} \cup TimeExtra

ColorPieces ==
    {
    <<"#">>, <<"#", "f", "f", "0">>, <<"f", "f", "0">>, <<"3", "a">>,
    <<"E">>, <<"g">>, <<"\n">>, <<" ">>
    }

ColorExtra ==
    {
    <<"R", "e", "d">>, <<"R", "E", "D">>, <<"r", "e", "D", "\n">>,
    <<"r", "e", "d", "d">>, <<"#", "3", "A", "E">>, <<"#", "z", "z", "z">>,
    <<"#", "3", "F", "0", "4", "0", "1">>,
    <<"#", "0", "0", "5", "6", "0", "1">>,
    <<"#", "F", "F", "F", "F", "F", "F", "\n">>,
    <<"#", "f", "f", "f", "\n", "\n">>
    }

ColorNames == {e[1] : e \in colormap}

ColorTokens ==
    Pieces(ColorPieces, MaxColorLen) \cup ColorExtra \cup ColorNames
        \cup {n \o <<"\n">> : n \in ColorNames}
        \cup {<<" ">> \o n : n \in ColorNames}

EnumPieces ==
    {
    <<"#">>, <<"t">>, <<"t", "r", "u", "e">>, <<"f">>,
    <<"f", "a", "l", "s", "e">>, <<"t", "l">>, <<"t", "r">>, <<"b", "l">>,
    <<"b", "r">>, <<"c", "e">>, <<"l", "e", "f", "t">>,
    <<"c", "e", "n", "t", "e", "r">>, <<"r", "i", "g", "h", "t">>,
    <<"a", "l", "l">>, <<"T">>, <<" ">>
    }

EnumTokens == Pieces(EnumPieces, MaxWordLen)

ListPieces ==
    {
    <<"1">>, <<"5", "%">>, <<"a">>, <<",">>, <<" ">>, <<"1", ",", "2">>,
    <<",", "b">>, <<"-">>
    }

ListTokens == Pieces(ListPieces, MaxWordLen + 1)

FrameExtra ==
    {
    <<"n", "t", "s", "c">>, <<"n", "t", "s", "c", "_", "f", "i", "l", "m">>,
    <<"p", "a", "l">>, <<"f", "i", "l", "m">>, <<"N", "T", "S", "C">>,
    <<"p", "a", "l", " ">>,
    <<"3", "0", "0", "0", "0", "/", "1", "0", "0", "1">>,
    <<"2", "4", "0", "0", "0", "/", "1", "0", "0", "1">>, <<"1", "/", "0">>,
    <<"2", "3", ".", "9", "7", "6">>, <<"a", "b", "c">>
    }

FrameTokens == NumTokens \cup FrameExtra

\* reference dimensions for pos
Dims == {1, 2, 10, 200}

\* ----------------------------------------------------------- state machine
VARIABLES
    fn,     \* the coercer applied last, "none" before the first call
    val,    \* its argument: a str token, or a number fed back in
    dim,    \* the reference dimension passed to pos, 0 when unused
    res,    \* its outcome
    first   \* the outcome of the call before it, when one call follows another

vars == <<fn, val, dim, res, first>>

NoCall == [k |-> "none"]

Init ==
    /\ val = NoCall
    /\ fn = "none"
    /\ dim = 0
    /\ res = NoCall
    /\ first = NoCall

\* no coercer has been called yet
Fresh == fn = "none"

\* a coercer has returned r and nothing has been called on r yet
Returned(name) == fn = name /\ first = NoCall /\ IsOk(res)

Natural ==
    /\ Fresh
    /\ \E s \in NaturalTokens :
          /\ val' = VStr(s)
          /\ res' = natural(VStr(s))
    /\ fn' = "natural"
    /\ UNCHANGED <<dim, first>>

BoolCoerce ==
    /\ Fresh
    /\ \E s \in EnumTokens :
          /\ val' = VStr(s)
          /\ res' = bool_coerce(VStr(s))
    /\ fn' = "bool_coerce"
    /\ UNCHANGED <<dim, first>>

Number ==
    /\ Fresh
    /\ \E s \in NumTokens :
          /\ val' = VStr(s)
          /\ res' = number(VStr(s))
    /\ fn' = "number"
    /\ UNCHANGED <<dim, first>>

Speed ==
    /\ Fresh
    /\ \E s \in NumTokens :
          /\ val' = VStr(s)
          /\ res' = speed(VStr(s))
    /\ fn' = "speed"
    /\ UNCHANGED <<dim, first>>

DbNumber ==
    /\ Fresh
    /\ \E s \in NumTokens :
          /\ val' = VStr(s)
          /\ res' = db_number(VStr(s))
    /\ fn' = "db_number"
    /\ UNCHANGED <<dim, first>>

Threshold ==
    /\ Fresh
    /\ \E s \in NumTokens :
          /\ val' = VStr(s)
          /\ res' = threshold(VStr(s))
    /\ fn' = "threshold"
    /\ UNCHANGED <<dim, first>>

DbThreshold ==
    /\ Fresh
    /\ \E s \in NumTokens :
          /\ val' = VStr(s)
          /\ res' = db_threshold(VStr(s))
    /\ fn' = "db_threshold"
    /\ UNCHANGED <<dim, first>>

FrameRate ==
    /\ Fresh
    /\ \E s \in FrameTokens :
          /\ val' = VStr(s)
          /\ res' = frame_rate(VStr(s))
    /\ fn' = "frame_rate"
    /\ UNCHANGED <<dim, first>>

SampleRate ==
    /\ Fresh
    /\ \E s \in NumTokens :
          /\ val' = VStr(s)
          /\ res' = sample_rate(VStr(s))
    /\ fn' = "sample_rate"
    /\ UNCHANGED <<dim, first>>

Time ==
    /\ Fresh
    /\ \E s \in TimeTokens :
          /\ val' = VStr(s)
          /\ res' = time(VStr(s))
    /\ fn' = "time"
    /\ UNCHANGED <<dim, first>>

Anchor ==
    /\ Fresh
    /\ \E s \in EnumTokens :
          /\ val' = VStr(s)
          /\ res' = anchor(VStr(s))
    /\ fn' = "anchor"
    /\ UNCHANGED <<dim, first>>

Margin ==
    /\ Fresh
    /\ \E s \in TimeTokens :
          /\ val' = VStr(s)
          /\ res' = margin(VStr(s))
    /\ fn' = "margin"
    /\ UNCHANGED <<dim, first>>

TimeRange ==
    /\ Fresh
    /\ \E s \in ListTokens :
          /\ val' = VStr(s)
          /\ res' = time_range(VStr(s))
    /\ fn' = "time_range"
    /\ UNCHANGED <<dim, first>>

SpeedRange ==
    /\ Fresh
    /\ \E s \in ListTokens :
          /\ val' = VStr(s)
          /\ res' = speed_range(VStr(s))
    /\ fn' = "speed_range"
    /\ UNCHANGED <<dim, first>>

Align ==
    /\ Fresh
    /\ \E s \in EnumTokens :
          /\ val' = VStr(s)
          /\ res' = align(VStr(s))
    /\ fn' = "align"
    /\ UNCHANGED <<dim, first>>

Stream ==
    /\ Fresh
    /\ \E s \in EnumTokens \cup DecTokens :
          /\ val' = VStr(s)
          /\ res' = stream(VStr(s))
    /\ fn' = "stream"
    /\ UNCHANGED <<dim, first>>

Color ==
    /\ Fresh
    /\ \E s \in ColorTokens :
          /\ val' = VStr(s)
          /\ res' = color(VStr(s))
    /\ fn' = "color"
    /\ UNCHANGED <<dim, first>>

Resolution ==
    /\ Fresh
    /\ \E s \in ListTokens :
          /\ val' = VStr(s)
          /\ res' = resolution(VStr(s))
    /\ fn' = "resolution"
    /\ UNCHANGED <<dim, first>>

Pos ==
    /\ Fresh
    /\ \E s \in NumTokens, d \in Dims :
          /\ val' = VStr(s)
          /\ dim' = d
          /\ res' = pos(<<VStr(s), d>>)
    /\ fn' = "pos"
    /\ UNCHANGED first

\* natural(r) on the value r that natural has just returned
NaturalAgain ==
    /\ Returned("natural")
    /\ val' = res.v
    /\ first' = res
    /\ res' = natural(res.v)
    /\ UNCHANGED <<fn, dim>>

\* number(r) on the value r that number has just returned
NumberAgain ==
    /\ Returned("number")
    /\ val' = res.v
    /\ first' = res
    /\ res' = number(res.v)
    /\ UNCHANGED <<fn, dim>>

\* speed(r) on the value r that speed has just returned
SpeedAgain ==
    /\ Returned("speed")
    /\ val' = res.v
    /\ first' = res
    /\ res' = speed(res.v)
    /\ UNCHANGED <<fn, dim>>

\* threshold(r) on the value r that threshold has just returned
ThresholdAgain ==
    /\ Returned("threshold")
    /\ val' = res.v
    /\ first' = res
    /\ res' = threshold(res.v)
    /\ UNCHANGED <<fn, dim>>

\* margin(x + "," + x) after margin(x), for a token x without a comma
MarginTwice ==
    /\ fn = "margin"
    /\ first = NoCall
    /\ ~Contains(val.s, ",")
    /\ val' = VStr(val.s \o <<",">> \o val.s)
    /\ first' = res
    /\ res' = margin(val')
    /\ UNCHANGED <<fn, dim>>

Next ==
    \/ Natural \/ BoolCoerce \/ Number \/ Speed \/ DbNumber \/ Threshold
    \/ DbThreshold \/ FrameRate \/ SampleRate \/ Time \/ Anchor \/ Margin
    \/ TimeRange \/ SpeedRange \/ Align \/ Stream \/ Color \/ Resolution
    \/ Pos \/ NaturalAgain \/ NumberAgain \/ SpeedAgain \/ ThresholdAgain
    \/ MarginTwice

Spec == Init /\ [][Next]_vars

\* ------------------------------------------------------------------ claims
\* a string that denotes the number q: float() reads it
Denotes(s) == IsOk(PyFloat(s))
NumberOf(s) == PyFloat(s).v

\* x = y for two floats
RatEq(x, y) == SNum(x) * y.d = SNum(y) * x.d

\* C1: a coercer that fails, fails with CoerceError and nothing else.
C1_OnlyCoerceError == (fn # "none" /\ ~IsOk(res)) => res = CoerceError

\* the string is "#" followed by six lowercase hex digits and nothing else
IsHexColor(s) == Len(s) = 7 /\ s[1] = "#" /\ \A i \in 2..7 : s[i] \in HexLower

\* C2: whatever color returns is "#" followed by exactly six lowercase hex
\* digits; an input with a trailing character such as a newline fails.
C2_ColorIsSixHexDigits ==
    (fn = "color" /\ IsOk(res)) => (res.v.t = "str" /\ IsHexColor(res.v.s))

\* an optional sign and then digits only
PlainInt(s) ==
    LET sg == SignSplit(s, {"-"})
    IN  sg.rest # <<>> /\ \A i \in 1..Len(sg.rest) : sg.rest[i] \in Digits

PlainIntValue(s) ==
    LET sg == SignSplit(s, {"-"})
    IN  IF sg.neg THEN -DigitsValue(sg.rest, 0) ELSE DigitsValue(sg.rest, 0)

\* the outcome is the float n / d
IsQuotient(r, n, d) ==
    IsOk(r) /\ r.v.t = "float" /\ SNum(r.v.q) * d = n * r.v.q.d

\* C3: number on "n/d" with integer literals n and d fails iff d is zero and
\* otherwise returns the quotient n / d, not its floor; more than one "/" or
\* a side that int() does not read fails; "p%" returns p / 100.
C3_NumberFractionPercent ==
    (fn = "number" /\ val.t = "str") =>
        LET parts == Split(val.s, "/")
            body == SubSeq(val.s, 1, Len(val.s) - 1)
        IN  /\ (Len(parts) = 2 /\ PlainInt(parts[1]) /\ PlainInt(parts[2])) =>
                   IF PlainIntValue(parts[2]) = 0
                   THEN res = CoerceError
                   ELSE IsQuotient(res, PlainIntValue(parts[1]),
                                   PlainIntValue(parts[2]))
            /\ Len(parts) > 2 => res = CoerceError
            /\ (Len(parts) = 2 /\ (~IsOk(PyInt(parts[1])) \/ ~IsOk(PyInt(parts[2]))))
                   => res = CoerceError
            /\ (/\ Len(parts) = 1
                /\ val.s # <<>> /\ val.s[Len(val.s)] = "%"
                /\ NumPrefixLen(body) = Len(body)
                /\ Denotes(body))
                   => /\ IsOk(res) /\ res.v.t = "float"
                      /\ RatEq(RatMul(res.v.q, 100), NumberOf(body))

\* number("1/2") has returned 0.5
C3_Witness ==
    /\ fn = "number"
    /\ val = VStr(<<"1", "/", "2">>)
    /\ res = Ok(VFloat(Rat(FALSE, 1, 2)))

\* the decimal string of a natural: digits, no leading zero
IsDecimalString(s) ==
    /\ s # <<>>
    /\ \A i \in 1..Len(s) : s[i] \in Digits
    /\ Len(s) = 1 \/ s[1] # "0"

\* str(v) for an int v >= 0
IntStr(v) == IF "big" \in DOMAIN v THEN v.big ELSE NatStr(v.i)

\* C4: natural returns n on the decimal string of a natural n, and fails on
\* a string that denotes a negative number or a non-integral number, and on
\* a number followed by a non-empty unit suffix.
C4_NaturalOfDecimalString ==
    (fn = "natural" /\ val.t = "str") =>
        /\ IsDecimalString(val.s) =>
               /\ IsOk(res) /\ res.v.t = "int"
               /\ IntStr(res.v) = val.s
        /\ (Denotes(val.s) /\ RatLt(NumberOf(val.s), 0)) => res = CoerceError
        /\ (Denotes(val.s) /\ ~IsInteger(NumberOf(val.s))) => res = CoerceError
        /\ \A k \in 1..(Len(val.s) - 1) :
              (/\ Denotes(SubSeq(val.s, 1, k))
               /\ val.s[k + 1] \notin NUM_CHARS) => res = CoerceError

\* C5: when number succeeds with value v, speed succeeds too: it returns v
\* when 0 < v <= 99999 and 99999.0 when v <= 0 or v > 99999, so what it
\* returns is greater than 0 and at most 99999.
C5_SpeedClamps ==
    (fn = "speed" /\ IsOk(number(val))) =>
        /\ IsOk(res)
        /\ (RatGt(AsRat(number(val).v), 0) /\ RatLe(AsRat(number(val).v), 99999))
               => res = number(val)
        /\ (RatLe(AsRat(number(val).v), 0) \/ RatGt(AsRat(number(val).v), 99999))
               => res = Ok(VFloat(RatOfInt(99999)))
        /\ RatGt(AsRat(res.v), 0) /\ RatLe(AsRat(res.v), 99999)

\* speed("0") has returned 99999.0
C5_Witness ==
    /\ fn = "speed"
    /\ val = VStr(<<"0">>)
    /\ res = Ok(VFloat(RatOfInt(99999)))

\* C6: when number succeeds with value v, threshold returns v if
\* 0 <= v <= 1, both ends included, and fails otherwise.
C6_ThresholdUnitInterval ==
    (fn = "threshold" /\ IsOk(number(val))) =>
        IF RatLe(AsRat(number(val).v), 1) /\ ~RatLt(AsRat(number(val).v), 0)
        THEN res = number(val)
        ELSE res = CoerceError

\* threshold("100%") has returned 1.0
C6_Witness ==
    /\ fn = "threshold"
    /\ val = VStr(<<"1", "0", "0", "%">>)
    /\ res = Ok(VFloat(RatOfInt(1)))

\* r is a string that float() reads as q
IsNumericString(r, q) ==
    /\ IsOk(r) /\ r.v.t = "str"
    /\ Denotes(r.v.s) /\ RatEq(NumberOf(r.v.s), q)

\* the claim of C7 for a token with no colon, split into p.num and p.unit
TimeOfUnit(p, r) ==
    IF p.unit \in SecondUnits THEN IsNumericString(r, p.num.q)
    ELSE IF p.unit \in MinuteUnits THEN IsNumericString(r, RatMul(p.num.q, 60))
    ELSE IF p.unit \in HourUnits THEN IsNumericString(r, RatMul(p.num.q, 3600))
    ELSE IF p.unit = <<>>
    THEN IF IsInteger(p.num.q)
         THEN r = Ok(VInt(Trunc(p.num.q)))
         ELSE r = CoerceError
    ELSE r = CoerceError

\* the claim of C7 for a token with a colon, split at its colons, where the
\* minutes and hours are int literals and the seconds a float literal
TimeOfBoxes(boxes, r) ==
    /\ (Len(boxes) = 2 /\ IsOk(PyInt(boxes[1])) /\ Denotes(boxes[2])) =>
           IsNumericString(r, RatAddInt(PyInt(boxes[1]).v * 60,
                                        NumberOf(boxes[2])))
    /\ (/\ Len(boxes) = 3 /\ IsOk(PyInt(boxes[1]))
        /\ IsOk(PyInt(boxes[2])) /\ Denotes(boxes[3])) =>
           IsNumericString(r, RatAddInt(PyInt(boxes[1]).v * 3600
                                            + PyInt(boxes[2]).v * 60,
                                        NumberOf(boxes[3])))
    /\ Len(boxes) > 3 => r = CoerceError

\* C7: time returns the numeric string of M*60+S on "M:S" and of
\* H*3600+M*60+S on "H:M:S", and fails with the invalid-format error on any
\* other count of colon-separated parts; with no colon, a seconds alias
\* gives the number as a string, a minutes alias the number times 60, an
\* hours alias the number times 3600, an empty unit the integer (a failure
\* if the number is not integral), and any other unit fails.
C7_TimeFormats ==
    fn = "time" =>
        IF Contains(val.s, ":")
        THEN TimeOfBoxes(Split(val.s, ":"), res)
        ELSE IsOk(_split_num_str(val)) => TimeOfUnit(_split_num_str(val).v, res)

\* time("1:30") has returned "90.0"
C7_Witness ==
    /\ fn = "time"
    /\ val = VStr(<<"1", ":", "3", "0">>)
    /\ res = Ok(VStr(<<"9", "0", ".", "0">>))

\* the state after margin(x) and then margin(x + "," + x), x with no comma:
\* first holds the former outcome and res the latter
MarginCompared == fn = "margin" /\ first # NoCall

\* the token x of a compared margin
MarginToken == Split(val.s, ",")[1]

\* C8, as claimed: for every token x with no comma, margin(x) and
\* margin(x + "," + x) both fail or both return the same pair, whose two
\* components are equal; and margin of three or more parts fails.
C8_MarginDuplicates ==
    /\ MarginCompared =>
           /\ res = first
           /\ IsOk(res) => res.v.xs[1] = res.v.xs[2]
    /\ (fn = "margin" /\ Len(Split(val.s, ",")) >= 3) => res = CoerceError

\* C8, amended: the same for every token x with no comma and no whitespace
\* at either end.
C8_MarginDuplicatesStripped ==
    /\ (MarginCompared /\ Strip(MarginToken) = MarginToken) =>
           /\ res = first
           /\ IsOk(res) => res.v.xs[1] = res.v.xs[2]
    /\ (fn = "margin" /\ Len(Split(val.s, ",")) >= 3) => res = CoerceError

\* margin("5s") and margin("5s,5s") have both returned ("5.0", "5.0")
C8_Witness ==
    /\ MarginCompared
    /\ val = VStr(<<"5", "s", ",", "5", "s">>)
    /\ first = Ok(VTuple(<<VStr(<<"5", ".", "0">>), VStr(<<"5", ".", "0">>)>>))
    /\ res = first

\* C9: natural, number, threshold and speed are idempotent: applied to what
\* they returned, they return it again.
C9_Idempotent ==
    (fn \in {"natural", "number", "threshold", "speed"} /\ first # NoCall) =>
        res = first

\* number("1/2") has returned 0.5, and number(0.5) has returned 0.5
C9_Witness ==
    /\ fn = "number"
    /\ val = VFloat(Rat(FALSE, 1, 2))
    /\ first = Ok(VFloat(Rat(FALSE, 1, 2)))
    /\ res = first

\* the value pos rounds: (number / 100) * dim with a "%" unit, else number
PosExact(p) ==
    IF p.unit = <<"%">> THEN RatMul(RatDiv(p.num.q, 100), dim) ELSE p.num.q

\* i is an integer nearest to x
IsNearest(i, x) == 2 * Abs(i * x.d - SNum(x)) <= x.d

\* x lies halfway between two integers
IsHalf(x) == x.d = 2

\* pos has returned on a token whose value lies halfway between two integers
PosOfHalf ==
    /\ fn = "pos" /\ IsOk(res)
    /\ IsHalf(PosExact(_split_num_str(val).v))

\* pos has rounded the value up, and away from zero
PosWentUp == res.v.i * 2 > SNum(PosExact(_split_num_str(val).v))
PosWentAway == Abs(res.v.i) * 2 > PosExact(_split_num_str(val).v).n

\* pos rounds the half 0.5 up and away from zero, to 1
HalfGoesUp == pos(<<VStr(<<"0", ".", "5">>), 1>>).v.i = 1

\* the units pos takes, and the result within 1/2 of the value it rounds
PosNearest ==
    (fn = "pos" /\ IsOk(_split_num_str(val))) =>
        IF _split_num_str(val).v.unit \in {<<"%">>, <<>>}
        THEN /\ IsOk(res) /\ res.v.t = "int"
             /\ IsNearest(res.v.i, PosExact(_split_num_str(val).v))
        ELSE res = CoerceError

\* C10, as claimed: pos returns the integer nearest to (number/100)*dim
\* with a "%" unit and to the number with an empty unit, and fails on any
\* other unit; the result differs from the value by at most 1/2; and a half
\* is rounded the same way as every other half: in the direction, or to the
\* side of zero, that 0.5 is.
C10_PosHalvesOneWay ==
    /\ PosNearest
    /\ PosOfHalf => \/ PosWentUp <=> HalfGoesUp
                    \/ PosWentAway <=> HalfGoesUp

\* C10, amended: the same, but a half is rounded to the even integer next
\* to it, up or down.
C10_PosHalvesToEven ==
    /\ PosNearest
    /\ PosOfHalf => res.v.i % 2 = 0

\* pos(("2.5", d)) has returned 2
C10_Witness ==
    /\ fn = "pos"
    /\ val = VStr(<<"2", ".", "5">>)
    /\ res = Ok(VInt(2))
====
